---------------------------- MODULE Spec2Model ----------------------------
(***************************************************************************)
(* A model of the OCI launcher of apptainer: the process/environment spec  *)
(* builder (getProcess, getProcessArgs, getProcessEnv), the fakeroot       *)
(* reverse id mapper (getReverseUserMaps), the CDI device injector         *)
(* (addCDIDevices), the delete step of the runtime lifecycle driver        *)
(* (OciDelete) and the selection of the launcher (launchContainer).        *)
(*                                                                         *)
(* Go strings that the code parses, concatenates or searches are modelled  *)
(* as sequences of one-character strings, so that SplitN, TrimPrefix,      *)
(* HasPrefix and Contains are computed and not assumed.  Strings that the  *)
(* code only copies (argv tokens, container ids) are TLA+ strings.         *)
(***************************************************************************)
EXTENDS Integers, Sequences, FiniteSets, TLC

VARIABLES
    \* getProcessArgs: its inputs, its result, and whether it has run
    process, args, imgEntrypoint, imgCmd, processArgs, argsPhase,
    \* getReverseUserMaps: host ids, looked-up ranges, results
    uid, gid, subuidRange, subgidRange, uidMap, gidMap, mapErr, mapPhase,
    \* getProcess: the image ENV, os.Environ(), the evaluated --env-file,
    \* --env; the environment built, the error returned, the number of runs
    \* of getProcessEnv and the environment its first run built; --fakeroot,
    \* what user.CurrentOriginal() returns, and the Cwd of the process
    imgEnv, osEnviron, envFile, cfgEnv, procEnv, procErr, envRuns, firstEnv,
    cfgFakeroot, currentUser, procCwd,
    \* addCDIDevices: the spec's mounts, process environment and devices, the
    \* device names asked for, the error returned, and whether it has run
    specMounts, specEnv, specDevices, cdiDevices, cdiErr, cdiPhase,
    \* the runtime lifecycle of one container id: the state directory, the
    \* bundle symlink in it, the bundles that hold a lock, the container as
    \* the external runtime knows it
    stateDirExists, bundleLink, bundleLocks, runcState,
    \* each invocation (an OS process): where it stands, the operation it
    \* runs, its bundle path, the error of cmd.Run(), the error it returned
    pc, op, bundle, runErr, err,
    \* launchContainer: the options of the command line, the launcher that
    \* NewLauncher returned, the error returned, where the call stands, and
    \* what Exec has done: the bundle spec built, the runtime called
    launchOpts, launcher, launchErr, launchPhase, specBuilt, runtimeInvoked

argsVars == <<process, args, imgEntrypoint, imgCmd, processArgs, argsPhase>>
mapVars  == <<uid, gid, subuidRange, subgidRange, uidMap, gidMap, mapErr, mapPhase>>
envVars  == <<imgEnv, osEnviron, envFile, cfgEnv, procEnv, procErr, envRuns, firstEnv,
               cfgFakeroot, currentUser, procCwd>>
cdiVars  == <<specMounts, specEnv, specDevices, cdiDevices, cdiErr, cdiPhase>>
diskVars == <<stateDirExists, bundleLink, bundleLocks, runcState>>
procVars == <<pc, op, bundle, runErr, err>>
lifeVars == <<diskVars, procVars>>
launchVars == <<launchOpts, launcher, launchErr, launchPhase, specBuilt, runtimeInvoked>>
vars     == <<argsVars, mapVars, envVars, cdiVars, lifeVars, launchVars>>
\* What each component's actions leave alone.
notArgsVars == <<mapVars, envVars, cdiVars, lifeVars, launchVars>>
notMapVars  == <<argsVars, envVars, cdiVars, lifeVars, launchVars>>
notEnvVars  == <<argsVars, mapVars, cdiVars, lifeVars, launchVars>>
notCdiVars  == <<argsVars, mapVars, envVars, lifeVars, launchVars>>
notLifeVars == <<argsVars, mapVars, envVars, cdiVars, launchVars>>
notLaunchVars == <<argsVars, mapVars, envVars, cdiVars, lifeVars>>

---------------------------------------------------------------------------
(* Bounds of the model.                                                    *)
MaxArgs       == 2    \* length of the trailing-argument list
MaxEntrypoint == 2    \* length of the image entrypoint
MaxCmd        == 2    \* length of the image cmd
IdSlack       == 1    \* host ids taken this far around 0 and the minimum size
SizeSlack     == 1    \* range sizes taken this far above the minimum size
MaxImgEnv     == 2    \* length of the image's ENV list
MaxDevices    == 3    \* length of the list of CDI device names
NumProcs      == 2    \* invocations that may run at the same time

\* All sequences over S of length at most n.
SeqsUpTo(S, n) == UNION { [1..k -> S] : k \in 0..n }

---------------------------------------------------------------------------
(* Process Spec Builder: argv.                                             *)

Nil == "nil"

ProcessInputs    == {"", "bash"}
ArgTokens        == {"x", "y"}
EntrypointTokens == {"/e", "-c"}
CmdTokens        == {"a", "b"}

\* append(processArgs, cmd...) also when an explicit process was given.
getProcessArgs_CmdAlways(entrypoint, cmd, proc, as) ==
    LET processArgs0 == IF proc # "" THEN <<proc>> ELSE entrypoint
    IN  IF Len(as) > 0 THEN processArgs0 \o as ELSE processArgs0 \o cmd

\* getProcessArgs(imageSpec, process, args), part_000:75-93.
getProcessArgs(entrypoint, cmd, proc, as) ==
    LET processArgs0 == IF proc # "" THEN <<proc>> ELSE entrypoint
    IN  IF Len(as) > 0
        THEN processArgs0 \o as
        ELSE IF proc = "" THEN processArgs0 \o cmd ELSE processArgs0

ArgsInit ==
    /\ process \in ProcessInputs
    /\ args \in SeqsUpTo(ArgTokens, MaxArgs)
    /\ imgEntrypoint \in SeqsUpTo(EntrypointTokens, MaxEntrypoint)
    /\ imgCmd \in SeqsUpTo(CmdTokens, MaxCmd)
    /\ processArgs = <<>>
    /\ argsPhase = "input"

ArgsIdle ==
    /\ process = ""
    /\ args = <<>>
    /\ imgEntrypoint = <<>>
    /\ imgCmd = <<>>
    /\ processArgs = <<>>
    /\ argsPhase = "idle"

\* p.Args = getProcessArgs(imgSpec, process, args), part_000:54.
GetProcessArgs ==
    /\ argsPhase = "input"
    /\ processArgs' = getProcessArgs(imgEntrypoint, imgCmd, process, args)
    /\ argsPhase' = "done"
    /\ UNCHANGED <<process, args, imgEntrypoint, imgCmd>>
    /\ UNCHANGED notArgsVars

---------------------------------------------------------------------------
(* ID Mapper: getReverseUserMaps.                                          *)

\* The minimum size of a subordinate id range, part_000:139 and :146.
MinSubIDRange == 65536

\* fakeroot.GetIDRange found no entry for the user.
NoRange == [found |-> FALSE, size |-> 0]
Range(n) == [found |-> TRUE, size |-> n]

IdInputs ==
    (0..IdSlack) \cup {1001}
        \cup ((MinSubIDRange - IdSlack)..(MinSubIDRange + IdSlack + 1))
SizeInputs ==
    {0} \cup ((MinSubIDRange - 1)..(MinSubIDRange + SizeSlack)) \cup {100000}
RangeInputs == {NoRange} \cup { Range(n) : n \in SizeInputs }

\* specs.LinuxIDMapping{ContainerID, HostID, Size}.
IDMapping(c, h, s) == [ContainerID |-> c, HostID |-> h, Size |-> s]

\* The third range shortened by one, so that it ends at rangeSize.
reverseMap_EndsAtSize(id, size) ==
    IF id < size
    THEN << IDMapping(0, 1, id),
            IDMapping(id, 0, 1),
            IDMapping(id + 1, id + 1, size - id - 1) >>
    ELSE << IDMapping(0, 1, size),
            IDMapping(id, 0, 1) >>

\* The three-range branch taken for id = size as well.
reverseMap_BranchAtEqual(id, size) ==
    IF id <= size
    THEN << IDMapping(0, 1, id),
            IDMapping(id, 0, 1),
            IDMapping(id + 1, id + 1, size - id) >>
    ELSE << IDMapping(0, 1, size),
            IDMapping(id, 0, 1) >>

\* The mapping built for one id and its range size, part_000:150-181 (uid)
\* and 183-214 (gid).  In the first branch id < size <= 2^32 - 1, so id + 1
\* and size - id do not wrap in uint32.
reverseMap(id, size) ==
    IF id < size
    THEN << IDMapping(0, 1, id),
            IDMapping(id, 0, 1),
            IDMapping(id + 1, id + 1, size - id) >>
    ELSE << IDMapping(0, 1, size),
            IDMapping(id, 0, 1) >>

NoErr == [kind |-> "none", size |-> 0]
LookupErr == [kind |-> "lookup", size |-> 0]
SizeErr(n) == [kind |-> "size", size |-> n]

\* The gid range is not checked: only the uid range's size is.
reverseUserMapsErr_NoGidCheck(su, sg) ==
    IF ~su.found THEN LookupErr
    ELSE IF su.size < MinSubIDRange THEN SizeErr(su.size)
    ELSE IF ~sg.found THEN LookupErr
    ELSE NoErr

\* The error getReverseUserMaps returns, part_000:134-148.
reverseUserMapsErr(su, sg) ==
    IF ~su.found THEN LookupErr
    ELSE IF su.size < MinSubIDRange THEN SizeErr(su.size)
    ELSE IF ~sg.found THEN LookupErr
    ELSE IF sg.size < MinSubIDRange THEN SizeErr(sg.size)
    ELSE NoErr

MapInit ==
    /\ uid \in IdInputs
    /\ gid \in IdInputs
    /\ subuidRange \in RangeInputs
    /\ subgidRange \in RangeInputs
    /\ uidMap = <<>>
    /\ gidMap = <<>>
    /\ mapErr = NoErr
    /\ mapPhase = "input"

MapIdle ==
    /\ uid = 0
    /\ gid = 0
    /\ subuidRange = NoRange
    /\ subgidRange = NoRange
    /\ uidMap = <<>>
    /\ gidMap = <<>>
    /\ mapErr = NoErr
    /\ mapPhase = "idle"

\* getReverseUserMaps, part_000:130-217.  A nil map is the empty sequence.
GetReverseUserMaps ==
    /\ mapPhase = "input"
    /\ mapErr' = reverseUserMapsErr(subuidRange, subgidRange)
    /\ IF mapErr'.kind = "none"
       THEN /\ uidMap' = reverseMap(uid, subuidRange.size)
            /\ gidMap' = reverseMap(gid, subgidRange.size)
       ELSE /\ uidMap' = <<>>
            /\ gidMap' = <<>>
    /\ mapPhase' = "done"
    /\ UNCHANGED <<uid, gid, subuidRange, subgidRange>>
    /\ UNCHANGED notMapVars

---------------------------------------------------------------------------
(* Go strings as sequences of characters.                                  *)

\* strings.HasPrefix(s, prefix)
HasPrefix(s, prefix) ==
    Len(s) >= Len(prefix) /\ SubSeq(s, 1, Len(prefix)) = prefix

\* strings.TrimPrefix(s, prefix)
TrimPrefix(s, prefix) ==
    IF HasPrefix(s, prefix) THEN SubSeq(s, Len(prefix) + 1, Len(s)) ELSE s

\* strings.Contains(s, substr)
Contains(s, substr) ==
    \E i \in 0..(Len(s) - Len(substr)) : SubSeq(s, i + 1, i + Len(substr)) = substr

\* strings.Index(s, c) for a one-character c, counted from 1; 0 when absent.
IndexOf(s, c) ==
    IF \E i \in DOMAIN s : s[i] = c
    THEN CHOOSE i \in DOMAIN s : s[i] = c /\ \A j \in 1..(i - 1) : s[j] # c
    ELSE 0

\* strings.SplitN(s, "=", 2): one part when s has no "=", else the text
\* before the first "=" and all the text after it.
SplitN2(s) ==
    LET i == IndexOf(s, "=")
    IN  IF i = 0 THEN <<s>>
        ELSE << SubSeq(s, 1, i - 1), SubSeq(s, i + 1, Len(s)) >>

\* key + "=" + value
KV(key, value) == key \o <<"=">> \o value

EmptyMap == [k \in {} |-> <<>>]

---------------------------------------------------------------------------
(* Environment Resolver: getProcess and getProcessEnv.                     *)

PATH            == <<"P", "A", "T", "H">>
APPEND_PATH     == <<"A", "P", "P", "E", "N", "D", "_", "P", "A", "T", "H">>
PREPEND_PATH    == <<"P", "R", "E", "P", "E", "N", "D", "_", "P", "A", "T", "H">>
LD_LIBRARY_PATH ==
    <<"L", "D", "_", "L", "I", "B", "R", "A", "R", "Y", "_", "P", "A", "T", "H">>

\* const apptainerLibs = "/.singularity.d/libs", part_000:29.
apptainerLibs ==
    <<"/", ".", "s", "i", "n", "g", "u", "l", "a", "r", "i", "t", "y", ".", "d",
      "/", "l", "i", "b", "s">>

\* env.ApptainerPrefix and env.ApptainerEnvPrefix (package util/env).
ApptainerPrefix    == <<"A", "P", "P", "T", "A", "I", "N", "E", "R", "_">>
ApptainerEnvPrefix ==
    <<"A", "P", "P", "T", "A", "I", "N", "E", "R", "E", "N", "V", "_">>

CONTAINER == <<"C", "O", "N", "T", "A", "I", "N", "E", "R">>
NAME      == <<"N", "A", "M", "E">>

\* The names envFileMap strips, part_000:331-336.
ShellRuntimeVars ==
    { <<"G", "I", "D">>, <<"H", "O", "M", "E">>, <<"I", "F", "S">>,
      <<"O", "P", "T", "I", "N", "D">>, <<"P", "W", "D">>, <<"U", "I", "D">> }

\* mergeMap(a, b): the entries of a, overwritten key for key by those of b.
mergeMap(a, b) ==
    [ k \in (DOMAIN a) \cup (DOMAIN b) |-> IF k \in DOMAIN b THEN b[k] ELSE a[k] ]

\* defaultEnv(image, bundle), part_000:283-288.
defaultEnv(image, bundleDir) ==
    LET kc == ApptainerPrefix \o CONTAINER
        kn == ApptainerPrefix \o NAME
    IN  [ k \in {kc, kn} |-> IF k = kc THEN bundleDir ELSE image ]

\* The body of the loops of apptainerEnvMap (part_000:294-304) and
\* envFileMap (part_000:325-340) over a list of KEY=VAL strings: a later
\* entry overwrites an earlier one of the same key.
RECURSIVE apptainerEnvMapFrom(_, _)
apptainerEnvMapFrom(environ, apptainerEnv) ==
    IF environ = <<>> THEN apptainerEnv
    ELSE LET envVar == Head(environ)
             parts  == SplitN2(envVar)
         IN  IF ~HasPrefix(envVar, ApptainerEnvPrefix) \/ Len(parts) < 2
             THEN apptainerEnvMapFrom(Tail(environ), apptainerEnv)
             ELSE LET key == TrimPrefix(parts[1], ApptainerEnvPrefix)
                  IN  apptainerEnvMapFrom(Tail(environ),
                          mergeMap(apptainerEnv, [k \in {key} |-> parts[2]]))

\* apptainerEnvMap(), part_000:291-307, of the calling environment.
apptainerEnvMap(environ) == apptainerEnvMapFrom(environ, EmptyMap)

RECURSIVE envFileMapFrom(_, _)
envFileMapFrom(env, envMap) ==
    IF env = <<>> THEN envMap
    ELSE LET parts == SplitN2(Head(env))
         IN  IF Len(parts) < 2 \/ parts[1] \in ShellRuntimeVars
             THEN envFileMapFrom(Tail(env), envMap)
             ELSE envFileMapFrom(Tail(env),
                      mergeMap(envMap, [k \in {parts[1]} |-> parts[2]]))

\* envFileMap(ctx, f), part_000:310-343, given what the shell interpreter
\* evaluated the file to.
envFileMap(f) == envFileMapFrom(f.env, EmptyMap)

\* --env-file not given; a file that cannot be read or evaluated; a file
\* evaluated to a list of KEY=VAL strings.
NoEnvFile     == [given |-> FALSE, ok |-> TRUE, env |-> <<>>]
BadEnvFile    == [given |-> TRUE, ok |-> FALSE, env |-> <<>>]
EnvFileOf(e)  == [given |-> TRUE, ok |-> TRUE, env |-> e]

\* The image and bundle that getProcess is called with.
ImageName  == <<"i", "m", "g">>
BundlePath == <<"/", "b">>

\* rtEnv with --env merged before --env-file.
runtimeEnv_EnvBeforeFile(environ, file, env) ==
    LET rt1 == mergeMap(defaultEnv(ImageName, BundlePath), apptainerEnvMap(environ))
        rt2 == mergeMap(rt1, env)
    IN  IF file.given THEN mergeMap(rt2, envFileMap(file)) ELSE rt2

\* rtEnv as getProcess assembles it, part_000:34-46.
runtimeEnv(environ, file, env) ==
    LET rt1 == mergeMap(defaultEnv(ImageName, BundlePath), apptainerEnvMap(environ))
        rt2 == IF file.given THEN mergeMap(rt1, envFileMap(file)) ELSE rt1
    IN  mergeMap(rt2, env)

\* generate.Generator.SetProcessEnv(key, value) on the list env: the first
\* entry of that key is replaced where it stands, else key=value is appended.
SetProcessEnv(env, key, value) ==
    LET hits == { i \in DOMAIN env : HasPrefix(env[i], key \o <<"=">>) }
    IN  IF hits = {} THEN Append(env, KV(key, value))
        ELSE LET idx == CHOOSE i \in hits : \A j \in hits : i <= j
             IN  [env EXCEPT ![idx] = KV(key, value)]

\* The scan of the image ENV for PATH and LD_LIBRARY_PATH, part_000:233-244:
\* the value of the last entry of that key, "" when there is none.
RECURSIVE imageValue(_, _, _)
imageValue(env, key, found) ==
    IF env = <<>> THEN found
    ELSE LET e == SplitN2(Head(env))
         IN  IF Len(e) >= 2 /\ e[1] = key
             THEN imageValue(Tail(env), key, e[2])
             ELSE imageValue(Tail(env), key, found)

\* The locals and the list of the loop over runtimeEnv, part_000:247-260.
EnvLoopState(path, appendPath, prependPath, ldLibraryPath, env) ==
    [path |-> path, appendPath |-> appendPath, prependPath |-> prependPath,
     ldLibraryPath |-> ldLibraryPath, env |-> env]

\* One iteration of the loop, for key k with value v, part_000:248-259.
envLoopBody(st, k, v) ==
    IF k = PATH THEN [st EXCEPT !.path = v]
    ELSE IF k = APPEND_PATH THEN [st EXCEPT !.appendPath = v]
    ELSE IF k = PREPEND_PATH THEN [st EXCEPT !.prependPath = v]
    ELSE IF k = LD_LIBRARY_PATH THEN [st EXCEPT !.ldLibraryPath = v]
    ELSE [st EXCEPT !.env = SetProcessEnv(st.env, k, v)]

\* The loop, visiting the keys of rtEnv in the given order.
RECURSIVE envLoop(_, _, _)
envLoop(st, rtEnv, order) ==
    IF order = <<>> THEN st
    ELSE envLoop(envLoopBody(st, Head(order), rtEnv[Head(order)]), rtEnv, Tail(order))

\* The APPEND-ed / PREPEND-ed PATH, part_000:263-268.
computePath(path, appendPath, prependPath) ==
    LET path1 == IF appendPath # <<>> THEN path \o <<":">> \o appendPath ELSE path
    IN  IF prependPath # <<>> THEN prependPath \o <<":">> \o path1 ELSE path1

\* apptainerLibs appended without looking for it.
ensureLibs_Always(ldLibraryPath) ==
    TrimPrefix(ldLibraryPath \o <<":">> \o apptainerLibs, <<":">>)

\* LD_LIBRARY_PATH with the apptainer lib dir, part_000:274-276.
ensureLibs(ldLibraryPath) ==
    IF ~Contains(ldLibraryPath, apptainerLibs)
    THEN TrimPrefix(ldLibraryPath \o <<":">> \o apptainerLibs, <<":">>)
    ELSE ldLibraryPath

\* getProcessEnv(imageSpec, runtimeEnv), part_000:222-280, with the order in
\* which range visits the keys of the map.
getProcessEnv(imageEnv, rtEnv, order) ==
    LET st0 == EnvLoopState(imageValue(imageEnv, PATH, <<>>), <<>>, <<>>,
                            imageValue(imageEnv, LD_LIBRARY_PATH, <<>>), imageEnv)
        st  == envLoop(st0, rtEnv, order)
        path == computePath(st.path, st.appendPath, st.prependPath)
        env1 == IF path # <<>> THEN SetProcessEnv(st.env, PATH, path) ELSE st.env
    IN  SetProcessEnv(env1, LD_LIBRARY_PATH, ensureLibs(st.ldLibraryPath))

SpecialKeys == {PATH, APPEND_PATH, PREPEND_PATH, LD_LIBRARY_PATH}

\* The sequences that list every element of the set S once.
Orders(S) ==
    { f \in [1..Cardinality(S) -> S] : \A i, j \in DOMAIN f : i # j => f[i] # f[j] }

\* The orders in which range may visit the keys of rtEnv.  Go leaves the
\* order open.  A special key only sets its own local variable and a map has
\* it once, so where it comes in the order changes nothing: the special keys
\* are put first, and every order of the other keys is taken.
RangeOrders(rtEnv) ==
    LET IsSet(k) == k \in DOMAIN rtEnv
        special  == SelectSeq(<<PATH, APPEND_PATH, PREPEND_PATH, LD_LIBRARY_PATH>>, IsSet)
    IN  { special \o o : o \in Orders((DOMAIN rtEnv) \ SpecialKeys) }

---------------------------------------------------------------------------
(* Inputs of the environment resolver.                                     *)

FOO == <<"F", "O", "O">>
BAR == <<"B", "A", "R">>
HOME == <<"H", "O", "M", "E">>

\* Entries of the image's ENV; BAR has no "=".
ImgEnvEntries ==
    { KV(FOO, <<"i">>),
      KV(PATH, <<"/", "a">>),
      KV(LD_LIBRARY_PATH, <<"/", "l">>),
      KV(ApptainerPrefix \o NAME, <<"i">>),
      BAR }

\* os.Environ() of the launcher.
EnvironInputs ==
    { <<>>,
      << KV(ApptainerEnvPrefix \o FOO, <<"p">>),
         KV(ApptainerEnvPrefix \o ApptainerPrefix \o NAME, <<"p">>),
         KV(FOO, <<"h">>) >>,
      << KV(ApptainerEnvPrefix \o APPEND_PATH, <<"/", "b">>) >>,
      << KV(ApptainerEnvPrefix \o LD_LIBRARY_PATH, <<"/", "p">>),
         KV(ApptainerEnvPrefix \o PATH, <<"/", "p">>) >> }

\* --env-file, as evaluated by the shell interpreter.
EnvFileInputs ==
    { NoEnvFile,
      BadEnvFile,
      EnvFileOf(<< KV(FOO, <<"f">>), KV(HOME, <<"/", "h">>) >>),
      EnvFileOf(<< KV(PREPEND_PATH, <<"/", "c">>) >>) }

\* --env
CfgEnvInputs ==
    { EmptyMap,
      [k \in {FOO} |-> <<"e">>],
      [k \in {PATH, LD_LIBRARY_PATH} |-> IF k = PATH THEN <<"/", "r">> ELSE <<>>],
      [k \in {PATH, LD_LIBRARY_PATH} |->
          IF k = PATH THEN <<>> ELSE <<"/", "x">> \o apptainerLibs \o <<"6", "4">>],
      [k \in {APPEND_PATH, LD_LIBRARY_PATH} |->
          IF k = APPEND_PATH THEN <<>> ELSE <<"/", "l", ":">> \o apptainerLibs] }

\* user.CurrentOriginal(): the passwd entry of the user, or an error.
UserFound(dir) == [ok |-> TRUE, dir |-> dir]
UserLookupFailed == [ok |-> FALSE, dir |-> ""]

\* --fakeroot and the outcome of the user lookup; the lookup is not made
\* under --fakeroot.
CwdInputs ==
    { <<TRUE, UserFound("/home/u")>>,
      <<FALSE, UserFound("/home/u")>>,
      <<FALSE, UserLookupFailed>> }

\* Launcher.getProcessCwd, part_000:113-123.
getProcessCwd(fakeroot, pw) ==
    IF fakeroot THEN [dir |-> "/root", err |-> FALSE]
    ELSE IF ~pw.ok THEN [dir |-> "", err |-> TRUE]
    ELSE [dir |-> pw.dir, err |-> FALSE]

EnvInit ==
    /\ imgEnv \in SeqsUpTo(ImgEnvEntries, MaxImgEnv)
    /\ osEnviron \in EnvironInputs
    /\ envFile \in EnvFileInputs
    /\ cfgEnv \in CfgEnvInputs
    /\ \E c \in CwdInputs : cfgFakeroot = c[1] /\ currentUser = c[2]
    /\ procEnv = <<>>
    /\ procErr = FALSE
    /\ procCwd = ""
    /\ envRuns = 0
    /\ firstEnv = <<>>

EnvIdle ==
    /\ imgEnv = <<>>
    /\ osEnviron = <<>>
    /\ envFile = NoEnvFile
    /\ cfgEnv = EmptyMap
    /\ procEnv = <<>>
    /\ procErr = FALSE
    /\ cfgFakeroot = FALSE
    /\ currentUser = UserLookupFailed
    /\ procCwd = ""
    /\ envRuns = -1
    /\ firstEnv = <<>>

\* Launcher.getProcess, part_000:31-62: the error of envFileMap, else the
\* error of getProcessCwd, else the environment and the Cwd of the process.
\* (User and Terminal are not modelled.)  imgEnv stays the image ENV that
\* was given to the call.
GetProcess ==
    /\ envRuns = 0
    /\ IF envFile.given /\ ~envFile.ok
       THEN /\ procErr' = TRUE
            /\ procEnv' = <<>>
            /\ procCwd' = ""
       ELSE IF getProcessCwd(cfgFakeroot, currentUser).err
       THEN /\ procErr' = TRUE
            /\ procEnv' = <<>>
            /\ procCwd' = ""
       ELSE /\ procErr' = FALSE
            /\ procCwd' = getProcessCwd(cfgFakeroot, currentUser).dir
            /\ \E order \in RangeOrders(runtimeEnv(osEnviron, envFile, cfgEnv)) :
                  procEnv' = getProcessEnv(imgEnv,
                                 runtimeEnv(osEnviron, envFile, cfgEnv), order)
    /\ envRuns' = 1
    /\ UNCHANGED <<imgEnv, osEnviron, envFile, cfgEnv, firstEnv, cfgFakeroot, currentUser>>
    /\ UNCHANGED notEnvVars

\* getProcessEnv run again on the environment it built, given as the image
\* ENV, with the same runtime environment or with none.
GetProcessEnvAgain ==
    /\ envRuns = 1
    /\ ~procErr
    /\ \E rtEnv \in {EmptyMap, runtimeEnv(osEnviron, envFile, cfgEnv)} :
       \E order \in RangeOrders(rtEnv) :
          procEnv' = getProcessEnv(procEnv, rtEnv, order)
    /\ firstEnv' = procEnv
    /\ envRuns' = 2
    /\ UNCHANGED <<imgEnv, osEnviron, envFile, cfgEnv, procErr,
                   cfgFakeroot, currentUser, procCwd>>
    /\ UNCHANGED notEnvVars

---------------------------------------------------------------------------
(* CDI Device Injector: addCDIDevices, as Test_addCDIDevice exercises it.  *)

\* The characters of mount destinations, in byte order.
ByteOrder ==
    << "/", "0", "1", "2", "3", "4", "5", "6", "7", "8", "9",
       "a", "b", "c", "d", "e", "f", "g", "h", "i", "j", "k", "l", "m",
       "n", "o", "p", "q", "r", "s", "t", "u", "v", "w", "x", "y", "z" >>
Byte(c) == CHOOSE i \in DOMAIN ByteOrder : ByteOrder[i] = c

\* a < b for Go strings: byte-wise lexicographic.
RECURSIVE StringLess(_, _)
StringLess(a, b) ==
    IF b = <<>> THEN FALSE
    ELSE IF a = <<>> THEN TRUE
    ELSE IF Head(a) # Head(b) THEN Byte(Head(a)) < Byte(Head(b))
    ELSE StringLess(Tail(a), Tail(b))

\* specs.Mount{Source, Destination, Type: "", Options}
Mount(destination, options) ==
    [Source |-> "/tmp", Destination |-> destination, Options |-> options]

tmpmount1       == <<"/", "t", "m", "p", "m", "o", "u", "n", "t", "1">>
tmpmount3       == <<"/", "t", "m", "p", "m", "o", "u", "n", "t", "3">>
tmpmount13      == <<"/", "t", "m", "p", "m", "o", "u", "n", "t", "1", "3">>
tmpmount17      == <<"/", "t", "m", "p", "m", "o", "u", "n", "t", "1", "7">>
tmpmountforkmsg ==
    <<"/", "t", "m", "p", "m", "o", "u", "n", "t", "f", "o", "r", "k", "m", "s", "g">>

kmsgDevice         == "apptainertesting.sylabs.io/device=kmsgDevice"
tmpmountDevice1    == "apptainertesting.sylabs.io/device=tmpmountDevice1"
tmpmountDevice17   == "apptainertesting.sylabs.io/device=tmpmountDevice17"
noSuchDevice       == "apptainertesting.sylabs.io/device=noSuchDevice"
noSuchDeviceEither == "apptainertesting.sylabs.io/device=noSuchDeviceEither"

\* The devices of the CDI spec directory test/cdi, read off the cases of
\* Test_addCDIDevice: what each contributes alone (wantDevices, wantMounts,
\* wantEnv).
cdiRegistry ==
    [ name \in {kmsgDevice, tmpmountDevice1, tmpmountDevice17} |->
        IF name = kmsgDevice
        THEN [devices |-> <<"/dev/kmsg">>,
              mounts  |-> << Mount(tmpmountforkmsg, <<"rw">>) >>,
              env     |-> <<"FOO=VALID_SPEC", "BAR=BARVALUE1">>]
        ELSE IF name = tmpmountDevice1
        THEN [devices |-> <<>>,
              mounts  |-> << Mount(tmpmount1, <<"ro">>),
                             Mount(tmpmount3, <<"rbind", "nosuid", "nodev">>),
                             Mount(tmpmount13, <<"rw">>) >>,
              env     |-> <<"ABCD=QWERTY", "EFGH=ASDFGH", "IJKL=ZXCVBN">>]
        ELSE [devices |-> <<>>,
              mounts  |-> << Mount(tmpmount17, <<"r">>) >>,
              env     |-> <<"FOO=VALID_SPEC", "BAR=BARVALUE1">>] ]

\* mountsList.Less, cdi_linux_test.go:32.
Less(a, b) == StringLess(a.Destination, b.Destination)

\* sort.Sort of a mountsList: ascending by Less.  Lists of at most twelve
\* entries are sorted by insertion from the left, an entry moving left
\* while it is Less than the one before it, so mounts of equal destination
\* keep the order they had.
RECURSIVE InsertMount(_, _)
InsertMount(sorted, m) ==
    IF sorted = <<>> THEN <<m>>
    ELSE IF Less(m, Head(sorted)) THEN <<m>> \o sorted
    ELSE <<Head(sorted)>> \o InsertMount(Tail(sorted), m)

RECURSIVE SortMounts(_)
SortMounts(ms) ==
    IF ms = <<>> THEN <<>>
    ELSE InsertMount(SortMounts(SubSeq(ms, 1, Len(ms) - 1)), ms[Len(ms)])

\* The entries of add that env does not hold yet, appended to env.
RECURSIVE AppendNew(_, _)
AppendNew(env, add) ==
    IF add = <<>> THEN env
    ELSE AppendNew(IF \E i \in DOMAIN env : env[i] = Head(add)
                   THEN env ELSE Append(env, Head(add)),
                   Tail(add))

CdiSpec(mounts, env, devices) == [mounts |-> mounts, env |-> env, devices |-> devices]

\* The container edits of the named devices applied to a spec, in the order
\* of the names; the mounts are left unsorted.
RECURSIVE applyEdits(_, _)
applyEdits(spec, names) ==
    IF names = <<>> THEN spec
    ELSE LET d == cdiRegistry[Head(names)]
         IN  applyEdits(CdiSpec(spec.mounts \o d.mounts,
                                AppendNew(spec.env, d.env),
                                AppendNew(spec.devices, d.devices)),
                        Tail(names))

\* The longest prefix of names that the registry resolves.
RECURSIVE resolvedPrefix(_)
resolvedPrefix(names) ==
    IF names = <<>> \/ Head(names) \notin DOMAIN cdiRegistry THEN <<>>
    ELSE <<Head(names)>> \o resolvedPrefix(Tail(names))

CdiResult(failed, spec) == [err |-> failed, spec |-> spec]

\* The devices are injected one by one: those before the first unknown name
\* stay in the spec when the call fails.
addCDIDevices_Partial(spec, names) ==
    LET done   == applyEdits(spec, resolvedPrefix(names))
        sorted == [done EXCEPT !.mounts = SortMounts(done.mounts)]
    IN  CdiResult(\E i \in DOMAIN names : names[i] \notin DOMAIN cdiRegistry, sorted)

\* The edits are applied and the mounts are left in the order of insertion.
addCDIDevices_Unsorted(spec, names) ==
    IF \E i \in DOMAIN names : names[i] \notin DOMAIN cdiRegistry
    THEN CdiResult(TRUE, spec)
    ELSE CdiResult(FALSE, applyEdits(spec, names))

\* addCDIDevices(spec, cdiDevices): an unknown name anywhere fails the call
\* and the spec is not touched; else every device's edits are applied and
\* the spec's mounts sorted by destination.
addCDIDevices(spec, names) ==
    IF \E i \in DOMAIN names : names[i] \notin DOMAIN cdiRegistry
    THEN CdiResult(TRUE, spec)
    ELSE LET done == applyEdits(spec, names)
         IN  CdiResult(FALSE, [done EXCEPT !.mounts = SortMounts(done.mounts)])

DeviceNames ==
    {kmsgDevice, tmpmountDevice1, tmpmountDevice17, noSuchDevice, noSuchDeviceEither}

\* minimalSpec() of the test has no mounts; the launcher's spec has some.
SpecMountsInputs ==
    { <<>>,
      << Mount(<<"/", "p", "r", "o", "c">>, <<"nosuid">>),
         Mount(<<"/", "d", "e", "v">>, <<"nosuid">>) >> }

CdiInit ==
    /\ specMounts \in SpecMountsInputs
    /\ specEnv = <<>>
    /\ specDevices = <<>>
    /\ cdiDevices \in SeqsUpTo(DeviceNames, MaxDevices)
    /\ cdiErr = FALSE
    /\ cdiPhase = "input"

CdiIdle ==
    /\ specMounts = <<>>
    /\ specEnv = <<>>
    /\ specDevices = <<>>
    /\ cdiDevices = <<>>
    /\ cdiErr = FALSE
    /\ cdiPhase = "idle"

\* err := addCDIDevices(&spec, tt.devices, ...), cdi_linux_test.go:233-234.
AddCDIDevices ==
    /\ cdiPhase = "input"
    /\ LET r == addCDIDevices(CdiSpec(specMounts, specEnv, specDevices), cdiDevices)
       IN  /\ cdiErr' = r.err
           /\ specMounts' = r.spec.mounts
           /\ specEnv' = r.spec.env
           /\ specDevices' = r.spec.devices
    /\ cdiPhase' = "done"
    /\ UNCHANGED cdiDevices
    /\ UNCHANGED notCdiVars

---------------------------------------------------------------------------
(* Runtime Lifecycle Driver: OciDelete on one container id, with the       *)
(* create and start that bring a container to it.                          *)

Procs   == 1..NumProcs
Bundles == {"/bundle1", "/bundle2"}
NoLink  == "none"
NoError == "none"

LifeInit ==
    /\ stateDirExists = FALSE
    /\ bundleLink = NoLink
    /\ bundleLocks = {}
    /\ runcState = "absent"
    /\ pc = [p \in Procs |-> "idle"]
    /\ op = [p \in Procs |-> "none"]
    /\ bundle = [p \in Procs |-> NoLink]
    /\ runErr = [p \in Procs |-> FALSE]
    /\ err = [p \in Procs |-> NoError]

LifeIdle ==
    /\ stateDirExists = FALSE
    /\ bundleLink = NoLink
    /\ bundleLocks = {}
    /\ runcState = "absent"
    /\ pc = [p \in Procs |-> "off"]
    /\ op = [p \in Procs |-> "none"]
    /\ bundle = [p \in Procs |-> NoLink]
    /\ runErr = [p \in Procs |-> FALSE]
    /\ err = [p \in Procs |-> NoError]

\* return e
Return(p, e) ==
    /\ pc' = [pc EXCEPT ![p] = "done"]
    /\ err' = [err EXCEPT ![p] = e]

\* OciCreate up to the call of the runtime: the state directory and the
\* bundle symlink are made and the bundle is locked; a symlink or a lock
\* that is already there fails the call and nothing it made is kept.
CreateBegin(p) ==
    /\ pc[p] = "idle"
    /\ \E b \in Bundles :
          /\ op' = [op EXCEPT ![p] = "create"]
          /\ bundle' = [bundle EXCEPT ![p] = b]
          /\ IF bundleLink # NoLink
             THEN /\ Return(p, "while creating bundle symlink")
                  /\ UNCHANGED diskVars
             ELSE IF b \in bundleLocks
             THEN /\ Return(p, "while locking bundle")
                  /\ UNCHANGED diskVars
             ELSE /\ stateDirExists' = TRUE
                  /\ bundleLink' = b
                  /\ bundleLocks' = bundleLocks \cup {b}
                  /\ pc' = [pc EXCEPT ![p] = "c_wait"]
                  /\ UNCHANGED <<runcState, err>>
    /\ UNCHANGED runErr
    /\ UNCHANGED notLifeVars

\* The runtime's create returns: the container is created, or the call
\* fails and what OciCreate made is rolled back.
CreateRuncExit(p) ==
    /\ pc[p] = "c_wait"
    /\ \/ /\ runcState = "absent"
          /\ runcState' = "created"
          /\ Return(p, NoError)
          /\ UNCHANGED <<stateDirExists, bundleLink, bundleLocks, runErr>>
       \/ /\ runErr' = [runErr EXCEPT ![p] = TRUE]
          /\ Return(p, "while calling runc create")
          /\ bundleLink' = NoLink
          /\ bundleLocks' = bundleLocks \ {bundle[p]}
          /\ stateDirExists' = FALSE
          /\ UNCHANGED runcState
    /\ UNCHANGED <<op, bundle>>
    /\ UNCHANGED notLifeVars

\* OciStart: the runtime starts a created container.
Start(p) ==
    /\ pc[p] = "idle"
    /\ op' = [op EXCEPT ![p] = "start"]
    /\ IF runcState = "created"
       THEN /\ runcState' = "running"
            /\ Return(p, NoError)
            /\ UNCHANGED runErr
       ELSE /\ runErr' = [runErr EXCEPT ![p] = TRUE]
            /\ Return(p, "while calling runc start")
            /\ UNCHANGED runcState
    /\ UNCHANGED <<stateDirExists, bundleLink, bundleLocks, bundle>>
    /\ UNCHANGED notLifeVars

\* The container's process ends.
ContainerExit ==
    /\ runcState = "running"
    /\ runcState' = "stopped"
    /\ UNCHANGED <<stateDirExists, bundleLink, bundleLocks, procVars>>
    /\ UNCHANGED notLifeVars

\* The failure of cmd.Run() is ignored and OciDelete goes on.
afterRuncDelete_IgnoreError(p, failed) ==
    /\ pc' = [pc EXCEPT ![p] = "d_resolve"]
    /\ UNCHANGED err

\* if err != nil { return fmt.Errorf("while calling runc delete: %w", err) },
\* part_002:41-43.
afterRuncDelete(p, failed) ==
    IF failed
    THEN Return(p, "while calling runc delete")
    ELSE /\ pc' = [pc EXCEPT ![p] = "d_resolve"]
         /\ UNCHANGED err

\* OciDelete, part_002:25-40: runc is looked up and started; not finding it
\* returns that error, and a runc that cannot be started is a failure of
\* cmd.Run().
DeleteCallRunc(p) ==
    /\ pc[p] = "idle"
    /\ op' = [op EXCEPT ![p] = "delete"]
    /\ \/ /\ Return(p, "runc not found")
          /\ UNCHANGED runErr
       \/ /\ pc' = [pc EXCEPT ![p] = "d_wait"]
          /\ UNCHANGED <<runErr, err>>
       \/ /\ runErr' = [runErr EXCEPT ![p] = TRUE]
          /\ afterRuncDelete(p, TRUE)
    /\ UNCHANGED <<diskVars, bundle>>
    /\ UNCHANGED notLifeVars

\* cmd.Run() returns, part_002:40-43: the runtime deleted a created or
\* stopped container and exited 0, or it exited non-zero.
DeleteRuncExit(p) ==
    /\ pc[p] = "d_wait"
    /\ \/ /\ runcState \in {"created", "stopped"}
          /\ runcState' = "absent"
          /\ afterRuncDelete(p, FALSE)
          /\ UNCHANGED runErr
       \/ /\ runErr' = [runErr EXCEPT ![p] = TRUE]
          /\ afterRuncDelete(p, TRUE)
          /\ UNCHANGED runcState
    /\ UNCHANGED <<stateDirExists, bundleLink, bundleLocks, op, bundle>>
    /\ UNCHANGED notLifeVars

\* stateDir(containerID) and filepath.EvalSymlinks(bLink), part_002:45-54.
DeleteResolve(p) ==
    /\ pc[p] = "d_resolve"
    /\ \/ /\ Return(p, "while computing state directory")
          /\ UNCHANGED bundle
       \/ IF bundleLink = NoLink
          THEN /\ Return(p, "while finding bundle directory")
               /\ UNCHANGED bundle
          ELSE /\ bundle' = [bundle EXCEPT ![p] = bundleLink]
               /\ pc' = [pc EXCEPT ![p] = "d_remove"]
               /\ UNCHANGED err
    /\ UNCHANGED <<diskVars, op, runErr>>
    /\ UNCHANGED notLifeVars

\* os.Remove(bLink) fails and the failure goes unnoticed: the lock is
\* released next, with the symlink in place.
DeleteRemoveLink_KeepLink(p) ==
    /\ pc[p] = "d_remove"
    /\ pc' = [pc EXCEPT ![p] = "d_release"]
    /\ UNCHANGED err
    /\ UNCHANGED <<diskVars, op, bundle, runErr>>
    /\ UNCHANGED notLifeVars

\* os.Remove(bLink), part_002:56-59: the symlink is removed, or the removal
\* fails (the symlink is gone, or it may not be removed) and that error is
\* returned.
DeleteRemoveLink(p) ==
    /\ pc[p] = "d_remove"
    /\ \/ /\ Return(p, "while removing bundle symlink")
          /\ UNCHANGED bundleLink
       \/ /\ bundleLink # NoLink
          /\ bundleLink' = NoLink
          /\ pc' = [pc EXCEPT ![p] = "d_release"]
          /\ UNCHANGED err
    /\ UNCHANGED <<stateDirExists, bundleLocks, runcState, op, bundle, runErr>>
    /\ UNCHANGED notLifeVars

\* releaseBundle(bundle): the lock of the bundle is removed; a bundle that
\* holds no lock is an error.
releaseBundle(p) ==
    IF bundle[p] \in bundleLocks
    THEN /\ bundleLocks' = bundleLocks \ {bundle[p]}
         /\ Return(p, NoError)
    ELSE /\ UNCHANGED bundleLocks
         /\ Return(p, "while releasing bundle")

\* return releaseBundle(bundle), part_002:61-62.
DeleteRelease(p) ==
    /\ pc[p] = "d_release"
    /\ releaseBundle(p)
    /\ UNCHANGED <<stateDirExists, bundleLink, runcState, op, bundle, runErr>>
    /\ UNCHANGED notLifeVars

\* The invocation ends; another one may follow.
Exit(p) ==
    /\ pc[p] = "done"
    /\ pc' = [pc EXCEPT ![p] = "idle"]
    /\ op' = [op EXCEPT ![p] = "none"]
    /\ bundle' = [bundle EXCEPT ![p] = NoLink]
    /\ runErr' = [runErr EXCEPT ![p] = FALSE]
    /\ err' = [err EXCEPT ![p] = NoError]
    /\ UNCHANGED diskVars
    /\ UNCHANGED notLifeVars

---------------------------------------------------------------------------
(* Launcher selection: launchContainer and NewLauncher.                    *)

\* The options of the command line that the model follows: the --oci flag,
\* the --security list, the --home value, and whether getCgroupsJSON and
\* getEncryptionMaterial fail.
SecurityInputs == { <<>>, <<"seccomp:example.json">>, <<"uid:1000", "gid:1000">> }
HomeInputs     == { <<>>, <<"/", "d">>, <<"/", "s", ":", "/", "d">> }
UserHomeDir    == <<"/", "u">>

LaunchOptions ==
    [ociRuntime : BOOLEAN, security : SecurityInputs, home : HomeInputs,
     cgroupsErr : BOOLEAN, keyErr : BOOLEAN]

NoLauncher == [kind |-> Nil]

\* The source and the destination of a --home value "src:dest" or "dest";
\* the home directory of the user when --home was not given.
HomeOf(home) ==
    LET i == IndexOf(home, ":")
    IN  IF home = <<>> THEN [homeSrc |-> <<>>, homeDest |-> UserHomeDir]
        ELSE IF i = 0 THEN [homeSrc |-> <<>>, homeDest |-> home]
        ELSE [homeSrc |-> SubSeq(home, 1, i - 1),
              homeDest |-> SubSeq(home, i + 1, Len(home))]

\* oci.NewLauncher(opts...): a launcher and no error, or no launcher and an
\* error when an option is not supported by the OCI launcher.
NewLauncher(opts) ==
    IF opts.security # <<>>
    THEN [launcher |-> NoLauncher, err |-> "unsupported option"]
    ELSE [launcher |-> [kind |-> "oci", homeSrc |-> HomeOf(opts.home).homeSrc,
                        homeDest |-> HomeOf(opts.home).homeDest],
          err |-> NoError]

\* native.NewLauncher(opts...): the native launcher takes the security
\* options.
NativeNewLauncher(opts) ==
    [launcher |-> [kind |-> "native", homeSrc |-> HomeOf(opts.home).homeSrc,
                   homeDest |-> HomeOf(opts.home).homeDest],
     err |-> NoError]

LaunchInit ==
    /\ launchOpts \in LaunchOptions
    /\ launcher = NoLauncher
    /\ launchErr = NoError
    /\ launchPhase = "ready"
    /\ specBuilt = FALSE
    /\ runtimeInvoked = FALSE

LaunchIdle ==
    /\ launchOpts = [ociRuntime |-> FALSE, security |-> <<>>, home |-> <<>>,
                     cgroupsErr |-> FALSE, keyErr |-> FALSE]
    /\ launcher = NoLauncher
    /\ launchErr = NoError
    /\ launchPhase = "off"
    /\ specBuilt = FALSE
    /\ runtimeInvoked = FALSE

\* The error check after NewLauncher that skips it: l.Exec is reached with
\* whatever NewLauncher returned.
afterNewLauncher_IgnoreError(r) ==
    /\ launcher' = r.launcher
    /\ launchErr' = NoError
    /\ launchPhase' = "exec"

\* l, err = NewLauncher(opts...); if err != nil { return fmt.Errorf("while
\* configuring container: %s", err) }
afterNewLauncher(r) ==
    IF r.err # NoError
    THEN /\ launcher' = r.launcher
         /\ launchErr' = "while configuring container"
         /\ launchPhase' = "done"
    ELSE /\ launcher' = r.launcher
         /\ launchErr' = NoError
         /\ launchPhase' = "exec"

\* launchContainer up to its last statement: the cgroups JSON and the
\* encryption material are read, the options are assembled, and the
\* launcher of the selected runtime is configured.
LaunchContainer ==
    /\ launchPhase = "ready"
    /\ IF launchOpts.cgroupsErr
       THEN /\ launchErr' = "cgroups"
            /\ launchPhase' = "done"
            /\ UNCHANGED launcher
       ELSE IF launchOpts.keyErr
       THEN /\ launchErr' = "encryption material"
            /\ launchPhase' = "done"
            /\ UNCHANGED launcher
       ELSE IF launchOpts.ociRuntime
       THEN afterNewLauncher(NewLauncher(launchOpts))
       ELSE afterNewLauncher(NativeNewLauncher(launchOpts))
    /\ UNCHANGED <<launchOpts, specBuilt, runtimeInvoked>>
    /\ UNCHANGED notLaunchVars

\* return l.Exec(ctx, ep), first part: the launcher populates the bundle
\* spec; a failure there is returned.
Exec ==
    /\ launchPhase = "exec"
    /\ specBuilt' = TRUE
    /\ \/ /\ launchPhase' = "run"
          /\ UNCHANGED launchErr
       \/ /\ launchPhase' = "done"
          /\ launchErr' = "while building spec"
    /\ UNCHANGED <<launchOpts, launcher, runtimeInvoked>>
    /\ UNCHANGED notLaunchVars

\* return l.Exec(ctx, ep), second part: the external runtime is called and
\* its result is the result of launchContainer.
ExecRuntime ==
    /\ launchPhase = "run"
    /\ runtimeInvoked' = TRUE
    /\ launchPhase' = "done"
    /\ \E e \in {NoError, "while running container"} : launchErr' = e
    /\ UNCHANGED <<launchOpts, launcher, specBuilt>>
    /\ UNCHANGED notLaunchVars

---------------------------------------------------------------------------
(* Specifications.                                                         *)

InitArgs == ArgsInit /\ MapIdle /\ EnvIdle /\ CdiIdle /\ LifeIdle /\ LaunchIdle
NextArgs == GetProcessArgs
SpecArgs == InitArgs /\ [][NextArgs]_vars

InitIDMap == MapInit /\ ArgsIdle /\ EnvIdle /\ CdiIdle /\ LifeIdle /\ LaunchIdle
NextIDMap == GetReverseUserMaps
SpecIDMap == InitIDMap /\ [][NextIDMap]_vars

InitEnv == EnvInit /\ ArgsIdle /\ MapIdle /\ CdiIdle /\ LifeIdle /\ LaunchIdle
NextEnv == GetProcess \/ GetProcessEnvAgain
SpecEnv == InitEnv /\ [][NextEnv]_vars

InitCDI == CdiInit /\ ArgsIdle /\ MapIdle /\ EnvIdle /\ LifeIdle /\ LaunchIdle
NextCDI == AddCDIDevices
SpecCDI == InitCDI /\ [][NextCDI]_vars

InitLaunch == LaunchInit /\ ArgsIdle /\ MapIdle /\ EnvIdle /\ CdiIdle /\ LifeIdle
NextLaunch == LaunchContainer \/ Exec \/ ExecRuntime
SpecLaunch == InitLaunch /\ [][NextLaunch]_vars

Init == LifeInit /\ ArgsIdle /\ MapIdle /\ EnvIdle /\ CdiIdle /\ LaunchIdle
Next ==
    \/ \E p \in Procs : CreateBegin(p)
    \/ \E p \in Procs : CreateRuncExit(p)
    \/ \E p \in Procs : Start(p)
    \/ ContainerExit
    \/ \E p \in Procs : DeleteCallRunc(p)
    \/ \E p \in Procs : DeleteRuncExit(p)
    \/ \E p \in Procs : DeleteResolve(p)
    \/ \E p \in Procs : DeleteRemoveLink(p)
    \/ \E p \in Procs : DeleteRelease(p)
    \/ \E p \in Procs : Exit(p)
Spec == Init /\ [][Next]_vars

---------------------------------------------------------------------------
(* Claims about getProcessArgs.                                            *)

\* The elements of a sequence.
Elems(s) == { s[i] : i \in DOMAIN s }

\* C1: argv is [process] ++ args when an explicit process is given,
\* entrypoint ++ args when there is none and args is non-empty, and
\* entrypoint ++ cmd when there is none and args is empty; no token of the
\* image cmd is in argv together with user args or an explicit process.
C1_ArgvResolution ==
    argsPhase = "done" =>
        /\ process # "" => processArgs = <<process>> \o args
        /\ (process = "" /\ args # <<>>) => processArgs = imgEntrypoint \o args
        /\ (process = "" /\ args = <<>>) => processArgs = imgEntrypoint \o imgCmd
        /\ (process # "" \/ args # <<>>) => Elems(processArgs) \cap CmdTokens = {}

\* C1 witness: no explicit process, one trailing argument, and an image cmd
\* that is dropped.
C1_Witness ==
    /\ argsPhase = "done"
    /\ process = ""
    /\ args = <<"x">>
    /\ imgEntrypoint = <<"/e">>
    /\ imgCmd = <<"a">>
    /\ processArgs = <<"/e", "x">>

---------------------------------------------------------------------------
(* Claims about getReverseUserMaps.                                        *)

\* One past the last container id of a range.
ContainerEnd(r) == r.ContainerID + r.Size

RECURSIVE SumSizes(_)
SumSizes(m) == IF m = <<>> THEN 0 ELSE Head(m).Size + SumSizes(Tail(m))

\* No container id lies in two ranges of m.
ContainerDisjoint(m) ==
    \A i, j \in DOMAIN m :
        i < j => \/ m[i].Size = 0
                 \/ m[j].Size = 0
                 \/ ContainerEnd(m[i]) <= m[j].ContainerID
                 \/ ContainerEnd(m[j]) <= m[i].ContainerID

\* The container-side ranges of m are disjoint and their union is [0, n):
\* disjoint ranges inside [0, n) whose sizes add up to n.
ContainerPartition(m, n) ==
    /\ ContainerDisjoint(m)
    /\ \A i \in DOMAIN m :
          m[i].Size > 0 => (m[i].ContainerID >= 0 /\ ContainerEnd(m[i]) <= n)
    /\ SumSizes(m) = n

\* The host-side id a container id decodes to, -1 when no range holds it.
Decode(m, c) ==
    LET hits == { i \in DOMAIN m :
                    m[i].ContainerID <= c /\ c < ContainerEnd(m[i]) }
    IN  IF hits = {} THEN -1
        ELSE LET i == CHOOSE k \in hits : TRUE
             IN  m[i].HostID + (c - m[i].ContainerID)

\* The container-side intervals [from, to) of a mapping, in order.
ContainerRanges(m) ==
    [ i \in DOMAIN m |-> <<m[i].ContainerID, ContainerEnd(m[i])>> ]

MapsReturned == mapPhase = "done" /\ mapErr.kind = "none"

\* C5 as stated: for an id below the range size the container-side ranges
\* are [0,id), [id,id+1), [id+1,rangeSize), a partition of [0, rangeSize),
\* and container id 0 decodes to host id 1.
C5_Original_BelowSize(id, size, m) ==
    id < size =>
        /\ ContainerPartition(m, size)
        /\ ContainerRanges(m) = << <<0, id>>, <<id, id + 1>>, <<id + 1, size>> >>
        /\ Decode(m, 0) = 1

C5_Original ==
    MapsReturned =>
        /\ C5_Original_BelowSize(uid, subuidRange.size, uidMap)
        /\ C5_Original_BelowSize(gid, subgidRange.size, gidMap)

C5_Amended_BelowSize(id, size, m) ==
    id < size =>
        /\ ContainerPartition(m, size + 1)
        /\ ContainerRanges(m) = << <<0, id>>, <<id, id + 1>>, <<id + 1, size + 1>> >>
        /\ id > 0 => Decode(m, 0) = 1
        /\ id = 0 => Decode(m, 0) = 0

\* C5 (amended): for an id below the range size the container-side ranges are
\* [0,id), [id,id+1), [id+1,rangeSize+1): disjoint, with union
\* [0, rangeSize] (rangeSize + 1 ids, container id rangeSize included);
\* container id 0 decodes to host id 1 when id > 0, and to host id 0 when
\* id = 0 (the first range is then empty).
C5_PartitionUpToSize ==
    MapsReturned =>
        /\ C5_Amended_BelowSize(uid, subuidRange.size, uidMap)
        /\ C5_Amended_BelowSize(gid, subgidRange.size, gidMap)

\* C5 witness: uid 1001 with a range of 65536 ids; container id 65536 is
\* mapped, by the third range.
C5_Witness ==
    /\ MapsReturned
    /\ uid = 1001
    /\ subuidRange = Range(65536)
    /\ Len(uidMap) = 3
    /\ ContainerEnd(uidMap[3]) = 65537
    /\ Decode(uidMap, 0) = 1

\* C6: when a looked-up range (uid or gid) is smaller than 65536 the call
\* fails with a size error and both maps are nil, the uid map too when only
\* the gid range is too small; no error leaves a map behind; with both
\* sizes at least 65536 both maps are returned without error.
C6_SizeError ==
    mapPhase = "done" =>
        /\ (subuidRange.found /\ subuidRange.size < 65536)
              => (mapErr.kind = "size" /\ uidMap = <<>> /\ gidMap = <<>>)
        /\ (subuidRange.found /\ subgidRange.found /\ subgidRange.size < 65536)
              => (mapErr.kind = "size" /\ uidMap = <<>> /\ gidMap = <<>>)
        /\ mapErr.kind # "none" => (uidMap = <<>> /\ gidMap = <<>>)
        /\ (/\ subuidRange.found /\ subuidRange.size >= 65536
            /\ subgidRange.found /\ subgidRange.size >= 65536)
              => (mapErr.kind = "none" /\ uidMap # <<>> /\ gidMap # <<>>)

\* C6 witness: the uid range is large enough, the gid range has 65535 ids.
C6_Witness ==
    /\ mapPhase = "done"
    /\ subuidRange = Range(65536)
    /\ subgidRange = Range(65535)
    /\ mapErr = SizeErr(65535)
    /\ uidMap = <<>>
    /\ gidMap = <<>>

---------------------------------------------------------------------------
(* Claims about getProcess and getProcessEnv.                              *)

\* The variable a KEY=VALUE entry names; <<>> for an entry without "=".
EntryName(e) == IF Len(SplitN2(e)) >= 2 THEN SplitN2(e)[1] ELSE <<>>

\* The value a process reads for name from an environment list: that of the
\* first entry of that name.
LookupEnv(env, name) ==
    LET hits == { i \in DOMAIN env : Len(SplitN2(env[i])) >= 2 /\ EntryName(env[i]) = name }
    IN  IF hits = {} THEN [set |-> FALSE, value |-> <<>>]
        ELSE [set |-> TRUE,
              value |-> SplitN2(env[CHOOSE i \in hits : \A j \in hits : i <= j])[2]]

Defined(value) == [set |-> TRUE, value |-> value]

\* The sources of the environment as maps.
ImageDeclared ==
    [ name \in { EntryName(imgEnv[i]) : i \in DOMAIN imgEnv } \ {<<>>}
        |-> LookupEnv(imgEnv, name).value ]
PrefixedOverrides == apptainerEnvMap(osEnviron)
EnvFileVars == IF envFile.given THEN envFileMap(envFile) ELSE EmptyMap
LauncherDefaults == defaultEnv(ImageName, BundlePath)

\* The names some source of the sequence srcs defines, and the value that
\* the last source defining a name gives it.
NamesOf(srcs) == UNION { DOMAIN srcs[i] : i \in DOMAIN srcs }
HighestPrecedence(srcs, name) ==
    LET defining == { i \in DOMAIN srcs : name \in DOMAIN srcs[i] }
    IN  srcs[CHOOSE i \in defining : \A j \in defining : j <= i][name]

PrecedenceHolds(srcs) ==
    \A name \in NamesOf(srcs) \ SpecialKeys :
        LookupEnv(procEnv, name) = Defined(HighestPrecedence(srcs, name))

EnvBuilt == envRuns = 1 /\ ~procErr

\* C2 as stated: every name other than PATH, APPEND_PATH, PREPEND_PATH and
\* LD_LIBRARY_PATH has the value of the highest source defining it among
\* image ENV < prefixed overrides < env-file < --env.
C2_Original ==
    EnvBuilt =>
        PrecedenceHolds(<<ImageDeclared, PrefixedOverrides, EnvFileVars, cfgEnv>>)

\* C2 (amended): every name other than PATH, APPEND_PATH, PREPEND_PATH and
\* LD_LIBRARY_PATH has the value of the highest source defining it among
\* image ENV < the launcher's defaults (APPTAINER_CONTAINER, APPTAINER_NAME)
\* < prefixed overrides < env-file < --env.
C2_Precedence ==
    EnvBuilt =>
        PrecedenceHolds(<<ImageDeclared, LauncherDefaults, PrefixedOverrides,
                          EnvFileVars, cfgEnv>>)

\* C2 witness: FOO is defined by the image, by APPTAINERENV_FOO, by the env
\* file and by --env, and has the value of --env.
C2_Witness ==
    /\ EnvBuilt
    /\ FOO \in DOMAIN ImageDeclared
    /\ FOO \in DOMAIN PrefixedOverrides
    /\ FOO \in DOMAIN EnvFileVars
    /\ FOO \in DOMAIN cfgEnv
    /\ LookupEnv(procEnv, FOO) = Defined(<<"e">>)

\* The non-empty strings of segs joined by ":".
RECURSIVE JoinNonEmpty(_)
JoinNonEmpty(segs) ==
    IF segs = <<>> THEN <<>>
    ELSE LET rest == JoinNonEmpty(Tail(segs))
         IN  IF Head(segs) = <<>> THEN rest
             ELSE IF rest = <<>> THEN Head(segs)
             ELSE Head(segs) \o <<":">> \o rest

RuntimeValue(name) ==
    LET rtEnv == runtimeEnv(osEnviron, envFile, cfgEnv)
    IN  IF name \in DOMAIN rtEnv THEN Defined(rtEnv[name]) ELSE [set |-> FALSE, value |-> <<>>]

\* C3 as stated: PATH is PREPEND_PATH, basePATH and APPEND_PATH joined by
\* ":", an empty segment left out, basePATH being the runtime PATH if one is
\* given and the image PATH otherwise.
C3_Original ==
    EnvBuilt =>
        LET basePATH == IF RuntimeValue(PATH).set THEN RuntimeValue(PATH).value
                        ELSE LookupEnv(imgEnv, PATH).value
        IN  LookupEnv(procEnv, PATH).value =
                JoinNonEmpty(<< RuntimeValue(PREPEND_PATH).value, basePATH,
                                RuntimeValue(APPEND_PATH).value >>)

\* The LD_LIBRARY_PATH entries of an environment list.
LdEntries(env) ==
    LET IsLd(e) == Len(SplitN2(e)) >= 2 /\ EntryName(e) = LD_LIBRARY_PATH
    IN  SelectSeq(env, IsLd)

\* C4: for an input LD_LIBRARY_PATH (the image ENV names it at most once:
\* absent, empty, without or with the library directory), running
\* getProcessEnv on the environment it built leaves LD_LIBRARY_PATH as the
\* first run set it, once in the list.
C4_LdIdempotent ==
    (envRuns = 2 /\ Len(LdEntries(imgEnv)) <= 1) =>
        /\ Len(LdEntries(firstEnv)) = 1
        /\ LdEntries(procEnv) = LdEntries(firstEnv)
        /\ LookupEnv(procEnv, LD_LIBRARY_PATH) = LookupEnv(firstEnv, LD_LIBRARY_PATH)

\* C4 witness: LD_LIBRARY_PATH set neither by the image nor at runtime; after
\* the second run it is the library directory alone.
C4_Witness ==
    /\ envRuns = 2
    /\ ~LookupEnv(imgEnv, LD_LIBRARY_PATH).set
    /\ ~RuntimeValue(LD_LIBRARY_PATH).set
    /\ LookupEnv(firstEnv, LD_LIBRARY_PATH) = Defined(apptainerLibs)
    /\ LookupEnv(procEnv, LD_LIBRARY_PATH) = Defined(apptainerLibs)

---------------------------------------------------------------------------
(* Claims about addCDIDevices.                                             *)

HasUnknownDevice == \E i \in DOMAIN cdiDevices : cdiDevices[i] \notin DOMAIN cdiRegistry

\* Every mount, environment variable and device node of every listed device
\* is in the spec.
AllDevicesPresent(mounts, env, devices) ==
    \A i \in DOMAIN cdiDevices :
        LET d == cdiRegistry[cdiDevices[i]]
        IN  /\ Elems(d.mounts) \subseteq Elems(mounts)
            /\ Elems(d.env) \subseteq Elems(env)
            /\ Elems(d.devices) \subseteq Elems(devices)

\* C7: a call of addCDIDevices with an unknown device name anywhere in the
\* list returns an error and leaves the spec's mounts (and environment and
\* devices) as they were; a call with valid names only returns no error and
\* every device's mounts and environment variables are in the spec.
C7_AllOrNothing ==
    [][ (cdiPhase = "input" /\ cdiPhase' = "done") =>
            IF HasUnknownDevice
            THEN /\ cdiErr'
                 /\ specMounts' = specMounts
                 /\ specEnv' = specEnv
                 /\ specDevices' = specDevices
            ELSE /\ ~cdiErr'
                 /\ AllDevicesPresent(specMounts', specEnv', specDevices') ]_vars

\* C7 witness: the test case InvalidNameAmongValids on a spec that has
\* mounts: the call failed and the spec holds no mount of a device.
C7_Witness ==
    /\ cdiPhase = "done"
    /\ cdiDevices = <<tmpmountDevice17, noSuchDevice, tmpmountDevice1>>
    /\ cdiErr
    /\ Len(specMounts) = 2
    /\ \A i \in DOMAIN specMounts : specMounts[i].Destination # tmpmount17

---------------------------------------------------------------------------
(* Claims about OciDelete.                                                 *)

\* C8: in the step in which the runtime's delete call fails (runc cannot be
\* started, or exits non-zero), OciDelete returns the error "while calling
\* runc delete" and goes no further: the bundle symlink, the bundle locks
\* and the state directory are as they were.
C8_RuncFailureKeepsBookkeeping ==
    [][ \A p \in Procs :
            (op'[p] = "delete" /\ ~runErr[p] /\ runErr'[p]) =>
                /\ pc'[p] = "done"
                /\ err'[p] = "while calling runc delete"
                /\ bundleLink' = bundleLink
                /\ bundleLocks' = bundleLocks
                /\ stateDirExists' = stateDirExists ]_vars

\* C8 witness: a delete of a running container has returned the runtime's
\* failure; the symlink, the lock and the state directory are there.
C8_Witness ==
    \E p \in Procs :
        /\ op[p] = "delete"
        /\ pc[p] = "done"
        /\ runErr[p]
        /\ err[p] = "while calling runc delete"
        /\ runcState = "running"
        /\ bundleLink \in Bundles
        /\ bundleLink \in bundleLocks
        /\ stateDirExists

\* C9 as stated: when a Delete returns success the container id is Absent
\* again: no state directory, no bundle symlink, and the lock of its bundle
\* released.
C9_Original ==
    [][ \A p \in Procs :
            (op[p] = "delete" /\ pc[p] = "d_release" /\ pc'[p] = "done"
                /\ err'[p] = NoError) =>
                /\ ~stateDirExists'
                /\ bundleLink' = NoLink
                /\ bundle[p] \notin bundleLocks' ]_vars

\* An invocation is inside its runtime call, its symlink steps or its lock
\* release.
InLifecycleWork(p) == pc[p] \in {"c_wait", "d_wait", "d_resolve", "d_remove", "d_release"}

\* C10 as stated: while the lock taken at create time exists, no two
\* invocations on the container id are inside their runtime-call, symlink
\* or lock-release steps at the same time.
C10_Original ==
    bundleLocks # {} =>
        \A p, q \in Procs : p # q => ~(InLifecycleWork(p) /\ InLifecycleWork(q))

---------------------------------------------------------------------------
(* Claims about the launcher selection.                                    *)

\* launchContainer got as far as configuring the OCI launcher with a
\* --security option.
UnsupportedOptionGiven ==
    /\ launchPhase \notin {"off", "ready"}
    /\ launchOpts.ociRuntime
    /\ launchOpts.security # <<>>
    /\ ~launchOpts.cgroupsErr
    /\ ~launchOpts.keyErr

\* C11: when a security option is given with the OCI runtime, NewLauncher
\* returns an error and no launcher and launchContainer returns the error
\* "while configuring container": Exec is never called, so no bundle spec
\* is built and the external runtime is not invoked.
C11_UnsupportedOptionRejected ==
    UnsupportedOptionGiven =>
        /\ launcher = NoLauncher
        /\ launchPhase = "done"
        /\ launchErr = "while configuring container"
        /\ ~specBuilt
        /\ ~runtimeInvoked

\* C11 witness: launchContainer has returned the configuration error for a
\* seccomp option; the same command line without the --oci flag would have
\* been given a launcher.
C11_Witness ==
    /\ UnsupportedOptionGiven
    /\ launchOpts.security = <<"seccomp:example.json">>
    /\ launchPhase = "done"
    /\ launchErr = "while configuring container"
    /\ NativeNewLauncher(launchOpts).err = NoError

---------------------------------------------------------------------------
(* Claims about the order of the CDI mounts.                               *)

\* The mounts that the named devices declare, in the order of the names.
RECURSIVE DeclaredMounts(_)
DeclaredMounts(names) ==
    IF names = <<>> THEN <<>>
    ELSE cdiRegistry[Head(names)].mounts \o DeclaredMounts(Tail(names))

\* The number of times m occurs in the sequence ms.
Occurrences(ms, m) == Cardinality({ i \in DOMAIN ms : ms[i] = m })

\* a and b hold the same mounts the same number of times.
SameMounts(a, b) ==
    /\ Len(a) = Len(b)
    /\ \A i \in DOMAIN a : Occurrences(a, a[i]) = Occurrences(b, a[i])

\* No mount comes before one whose destination is smaller.
SortedByDestination(ms) ==
    \A i, j \in DOMAIN ms : i < j => ~Less(ms[j], ms[i])

\* The same names in every order.
Reorderings(names) ==
    { [i \in DOMAIN names |-> names[f[i]]] :
        f \in { g \in [DOMAIN names -> DOMAIN names] :
                    \A i, j \in DOMAIN names : i # j => g[i] # g[j] } }

FreshSpec == CdiSpec(<<>>, <<>>, <<>>)

AllNamesValid == \A i \in DOMAIN cdiDevices : cdiDevices[i] \in DOMAIN cdiRegistry

\* C12: after addCDIDevices succeeded on a list of valid names, the spec's
\* mounts are ascending by destination, they are the mounts the spec had
\* plus those the listed devices declare, and the call on a fresh spec
\* gives one and the same mount sequence for the names in any order.
C12_MountsSortedByDestination ==
    (cdiPhase = "done" /\ AllNamesValid) =>
        /\ ~cdiErr
        /\ SortedByDestination(specMounts)
        /\ \E before \in SpecMountsInputs :
               SameMounts(specMounts, before \o DeclaredMounts(cdiDevices))
        /\ \A other \in Reorderings(cdiDevices) :
               /\ addCDIDevices(FreshSpec, other).spec.mounts
                      = addCDIDevices(FreshSpec, cdiDevices).spec.mounts
               /\ Len(specMounts) = Len(DeclaredMounts(cdiDevices)) =>
                      specMounts = addCDIDevices(FreshSpec, other).spec.mounts

\* C12 witness: the devices of the case ValidTmpDevices, whose mounts are
\* declared in another order than that of their destinations.
C12_Witness ==
    /\ cdiPhase = "done"
    /\ cdiDevices = <<tmpmountDevice17, tmpmountDevice1>>
    /\ ~SortedByDestination(DeclaredMounts(cdiDevices))
    /\ Len(specMounts) = 4
    /\ [i \in 1..4 |-> specMounts[i].Destination]
           = <<tmpmount1, tmpmount13, tmpmount17, tmpmount3>>

---------------------------------------------------------------------------
(* Claims about both branches of the reverse id mapping.                   *)

HostEnd(r) == r.HostID + r.Size

\* No host id lies in two ranges of m.
HostDisjoint(m) ==
    \A i, j \in DOMAIN m :
        i < j => \/ m[i].Size = 0
                 \/ m[j].Size = 0
                 \/ HostEnd(m[i]) <= m[j].HostID
                 \/ HostEnd(m[j]) <= m[i].HostID

\* Some range of m holds the container id c.
Covers(m, c) ==
    \E i \in DOMAIN m : m[i].ContainerID <= c /\ c < ContainerEnd(m[i])

C13_Branches(id, size, m) ==
    /\ id < size => Len(m) = 3
    /\ id >= size => Len(m) = 2
    /\ ContainerDisjoint(m)
    /\ HostDisjoint(m)
    /\ Covers(m, 0)

\* C13: with both range sizes at least 65536, the uid map and the gid map
\* each have three ranges when the id is below the range size and two
\* ranges when it is equal to it or above; in both cases the container-side
\* ranges are pairwise disjoint, the host-side ranges are pairwise
\* disjoint, and container id 0 lies in one of the ranges.
C13_DisjointBothBranches ==
    MapsReturned =>
        /\ subuidRange.size >= MinSubIDRange
        /\ subgidRange.size >= MinSubIDRange
        /\ C13_Branches(uid, subuidRange.size, uidMap)
        /\ C13_Branches(gid, subgidRange.size, gidMap)

\* C13 witness: the uid is equal to its range size (two ranges), the gid
\* is below its range size (three ranges).
C13_Witness ==
    /\ MapsReturned
    /\ uid = subuidRange.size
    /\ Len(uidMap) = 2
    /\ uidMap[2].ContainerID = uid
    /\ gid > 0
    /\ gid < subgidRange.size
    /\ Len(gidMap) = 3

---------------------------------------------------------------------------
(* Claims about the environment list that getProcessEnv returns.           *)

\* The ":"-separated elements of a string; the empty string has none.
RECURSIVE SplitColon(_)
SplitColon(s) ==
    LET i == IndexOf(s, ":")
    IN  IF s = <<>> THEN <<>>
        ELSE IF i = 0 THEN <<s>>
        ELSE <<SubSeq(s, 1, i - 1)>> \o
             (IF i = Len(s) THEN << <<>> >> ELSE SplitColon(SubSeq(s, i + 1, Len(s))))

\* How many ":"-separated elements of value are the library directory.
LibsElements(value) ==
    Cardinality({ i \in DOMAIN SplitColon(value) : SplitColon(value)[i] = apptainerLibs })

\* The LD_LIBRARY_PATH given to getProcessEnv: the runtime one if there is
\* one, else the image's, else the empty string.
LdInput ==
    IF RuntimeValue(LD_LIBRARY_PATH).set THEN RuntimeValue(LD_LIBRARY_PATH).value
    ELSE imageValue(imgEnv, LD_LIBRARY_PATH, <<>>)

\* C14 as stated: the LD_LIBRARY_PATH returned has the library directory
\* exactly once as a ":"-separated element; an input without that element
\* has it appended at its end (it is the whole value for an empty or absent
\* input), an input with it is returned as it is.
C14_Original ==
    (EnvBuilt /\ Len(LdEntries(imgEnv)) <= 1) =>
        LET out == LookupEnv(procEnv, LD_LIBRARY_PATH).value
        IN  /\ LibsElements(out) = 1
            /\ LibsElements(LdInput) = 0 =>
                   out = IF LdInput = <<>> THEN apptainerLibs
                         ELSE LdInput \o <<":">> \o apptainerLibs
            /\ LibsElements(LdInput) > 0 => out = LdInput

\* The entry is of the form KEY=VALUE.
IsKeyValue(e) == Len(SplitN2(e)) >= 2

\* C15 as stated: no name occurs in two KEY=VALUE entries of the list that
\* getProcessEnv returns.
C15_Original ==
    EnvBuilt =>
        \A i, j \in DOMAIN procEnv :
            (i < j /\ IsKeyValue(procEnv[i]) /\ IsKeyValue(procEnv[j])) =>
                EntryName(procEnv[i]) # EntryName(procEnv[j])

\* C16 as stated: the list returned does not depend on the order in which
\* the runtime map is iterated: every order gives the list that was built.
C16_Original ==
    EnvBuilt =>
        \A order \in RangeOrders(runtimeEnv(osEnviron, envFile, cfgEnv)) :
            getProcessEnv(imgEnv, runtimeEnv(osEnviron, envFile, cfgEnv), order) = procEnv

---------------------------------------------------------------------------
(* Claims about the order of the steps of OciDelete.                       *)

\* Invocation p enters the step named l.
Enters(p, l) == pc[p] # l /\ pc'[p] = l

\* C17: within one OciDelete call the symlink is resolved only after the
\* runtime's delete succeeded, it is removed only after it was resolved,
\* and the lock is released only after the removal, for the bundle path
\* that was resolved, whose symlink is then gone; a call in which
\* resolving or removing the symlink fails returns an error and leaves
\* the locks as they are.
C17_DeleteStepOrder ==
    [][ \A p \in Procs :
            /\ Enters(p, "d_resolve") =>
                   /\ pc[p] = "d_wait"
                   /\ ~runErr'[p]
                   /\ runcState' = "absent"
                   /\ UNCHANGED <<bundleLink, bundleLocks>>
            /\ Enters(p, "d_remove") =>
                   /\ pc[p] = "d_resolve"
                   /\ bundleLink \in Bundles
                   /\ bundle'[p] = bundleLink
                   /\ UNCHANGED <<bundleLink, bundleLocks>>
            /\ Enters(p, "d_release") =>
                   /\ pc[p] = "d_remove"
                   /\ bundleLink = bundle[p]
                   /\ bundleLink' = NoLink
                   /\ UNCHANGED <<bundle, bundleLocks>>
            /\ (op[p] = "delete" /\ pc'[p] # pc[p] /\ bundleLocks' # bundleLocks) =>
                   /\ pc[p] = "d_release"
                   /\ bundleLocks' = bundleLocks \ {bundle[p]}
                   /\ bundleLink # bundle[p]
            /\ (pc[p] \in {"d_resolve", "d_remove"} /\ pc'[p] = "done") =>
                   /\ err'[p] \in {"while computing state directory",
                                   "while finding bundle directory",
                                   "while removing bundle symlink"}
                   /\ UNCHANGED <<bundleLink, bundleLocks>> ]_vars

\* C17 witness: a delete has gone through all its steps and released the
\* lock of the bundle it resolved, and another delete has failed to remove
\* the symlink and returned with the lock still held.
C17_Witness ==
    \E p, q \in Procs :
        /\ op[p] = "delete" /\ pc[p] = "done" /\ err[p] = NoError
        /\ bundle[p] \in Bundles
        /\ bundle[p] \notin bundleLocks
        /\ op[q] = "delete" /\ pc[q] = "done"
        /\ err[q] = "while removing bundle symlink"
        /\ bundleLink = bundle[q]
        /\ bundle[q] \in bundleLocks

=============================================================================
